---- MODULE Spec2Model ----
(***************************************************************************)
(* Verification model of the a8c-d3-chart numeric core (src/src/utils.js): *)
(* the x-axis tick planner, the factorizer, the date-span builder, the     *)
(* y-max rounder and the tooltip positioner.                               *)
(*                                                                         *)
(* Every function of the core is pure.  Each specification below draws    *)
(* the inputs of one function in Init and applies the function in one      *)
(* action that moves pc from "start" to "done".                            *)
(*                                                                         *)
(* Dates are day numbers counted from 1 January of a non-leap year.        *)
(***************************************************************************)
EXTENDS Integers, Sequences, FiniteSets, TLC

VARIABLES
    pc,            \* "start" before the call, "done" after it
    uniqueDates,   \* getXTicks / getDateSpaces: the sorted unique dates
    width,         \* getXTicks / getDateSpaces: the width argument
    mode,          \* getXTicks: 'item-comparison' or 'time-comparison'
    interval,      \* getXTicks: 'hour', 'day', 'week', ...
    maxTicks,      \* getXTicks: const maxTicks
    collapsedDates,  \* getXTicks: uniqueDates after the reassignment of line 317
    incrementFactor, \* getXTicks: const incrementFactor, <<f>>; <<>> if not computed
    xTicks,        \* the list getXTicks returned
    dateSpaces,    \* the list getDateSpaces returned
    inputNum,      \* getFactors: the argument
    numFactors,    \* the list getFactors returned
    lineData,      \* getYMax: the series, each a list of values
    yMax,          \* the number getYMax returned
    elementCoords, \* calculateTooltipPosition: element.getBoundingClientRect()
    chartCoords,   \* calculateTooltipPosition: chart.getBoundingClientRect()
    tooltipSize,   \* calculateTooltipPosition: the tooltip's bounding rectangle
    elementWidthRatio, \* calculateTooltipPosition: the ratio argument, in quarters
    tooltipPosition,   \* calculateTooltipPosition: 'over' or 'below'
    position,      \* the {x, y} calculateTooltipPosition returned
    firstDates,    \* the list getFirstDatePerMonth returned
    colorKey,      \* getColor: the key argument
    paramsOrderedKeys, \* getColor: params.orderedKeys
    keyValue,      \* getColor: the number passed to params.colorScheme
    props,         \* D3Chart: this.props
    state,         \* D3Chart: this.state
    prevProps,     \* componentDidUpdate: the props before the update
    prevState,     \* componentDidUpdate: the state before the update
    pendingState,  \* the setState calls React has queued, merged
    setStateChain, \* updates that called setState since the props last changed
    chartParams    \* the object getParams returned, <<params>>; <<>> before the call

axisVars == <<uniqueDates, width>>
ticksVars == <<mode, interval, maxTicks, collapsedDates, incrementFactor, xTicks>>
spacesVars == <<dateSpaces>>
factorsVars == <<inputNum, numFactors>>
yMaxVars == <<lineData, yMax>>
tooltipVars ==
    <<elementCoords, chartCoords, tooltipSize, elementWidthRatio, tooltipPosition,
      position>>

monthsVars == <<firstDates>>

colorVars == <<colorKey, paramsOrderedKeys, keyValue>>

chartVars ==
    <<props, state, prevProps, prevState, pendingState, setStateChain, chartParams>>

vars ==
    <<pc, axisVars, ticksVars, spacesVars, factorsVars, yMaxVars, tooltipVars,
      monthsVars, colorVars, chartVars>>

(***************************************************************************)
(* Bounds of the model.                                                    *)
(***************************************************************************)
MaxDates == 70      \* longest regular date list
PoolSize == 10      \* number of candidate days of the irregular date lists
MaxDay == 6         \* last day of the date lists of the date-span builder
MaxFactorInput == 150   \* largest argument of getFactors
MaxMantissa == 20   \* series values are m * 10^k value units, m up to this
MaxExponent == 6    \* ... and k from 1 up to this
MaxKeys == 8        \* largest number of category keys
MaxChain == 4       \* setStateChain counts up to this many updates

(***************************************************************************)
(* Program constants, utils.js lines 18-26.                                *)
(***************************************************************************)
dayTicksThreshold == 63
weekTicksThreshold == 9
smallBreak == 783
mediumBreak == 1130
wideBreak == 1365
smallPoints == 7
mediumPoints == 12
largePoints == 16
mostPoints == 31

(***************************************************************************)
(* Generic sequence helpers standing for the JavaScript array built-ins.   *)
(***************************************************************************)
Range(s) == {s[i] : i \in 1..Len(s)}

\* Array.prototype.filter: the elements of s at the indices in kept (the
\* indices at which the callback returns true), in the order of s.
FilterIdx(s, kept) ==
    LET F[k \in 0..Len(s)] ==
            IF k = 0 THEN <<>>
            ELSE IF k \in kept THEN Append(F[k - 1], s[k]) ELSE F[k - 1]
    IN F[Len(s)]

\* Array.prototype.sort( ( x, y ) => x - y ): ascending, duplicates kept.
RECURSIVE InsertSorted(_, _)
InsertSorted(x, s) ==
    IF s = <<>> THEN <<x>>
    ELSE IF x <= Head(s) THEN <<x>> \o s
    ELSE <<Head(s)>> \o InsertSorted(x, Tail(s))

RECURSIVE NumericSort(_)
NumericSort(s) ==
    IF s = <<>> THEN <<>> ELSE InsertSorted(Head(s), NumericSort(Tail(s)))

\* The ascending sequence of the elements of a finite set of integers.
RECURSIVE SetToSortedSeq(_)
SetToSortedSeq(S) ==
    IF S = {} THEN <<>>
    ELSE LET m == CHOOSE x \in S : \A y \in S : x <= y
         IN <<m>> \o SetToSortedSeq(S \ {m})

(***************************************************************************)
(* new Date( date ).getMonth(): the month number 0..11 of a day number.    *)
(***************************************************************************)
DaysInYear == 365
MonthStarts == <<0, 31, 59, 90, 120, 151, 181, 212, 243, 273, 304, 334>>

getMonth(date) ==
    LET doy == date % DaysInYear
        m == CHOOSE k \in 1..12 :
                 /\ MonthStarts[k] <= doy
                 /\ (k = 12 \/ doy < MonthStarts[k + 1])
    IN m - 1

(***************************************************************************)
(* getFactors, utils.js lines 42-53.                                       *)
(***************************************************************************)
\* Math.floor( Math.sqrt( n ) ); for n < 0 Math.sqrt is NaN and the loop
\* condition i <= NaN is false, which is the same as an upper limit of 0.
FloorSqrt(n) ==
    IF n <= 0 THEN 0
    ELSE CHOOSE k \in 1..n : k * k <= n /\ (k + 1) * (k + 1) > n

\* The for loop: numFactors after the iterations 1..k, in push order.
FactorPushes(num, skipSquare) ==
    LET P[k \in 0..FloorSqrt(num)] ==
            IF k = 0 THEN <<>>
            ELSE IF num % k = 0
                 THEN IF skipSquare /\ num \div k = k
                      THEN Append(P[k - 1], k)
                      ELSE Append(Append(P[k - 1], k), num \div k)
                 ELSE P[k - 1]
    IN P[FloorSqrt(num)]

\* Mutant: the guard `inputNum / i !== i` is dropped.
getFactorsNoSquareGuard(num) == NumericSort(FactorPushes(num, FALSE))

getFactors(num) == NumericSort(FactorPushes(num, TRUE))

(***************************************************************************)
(* calculateMaxXTicks, utils.js lines 228-248.                             *)
(***************************************************************************)
\* Mutant: the first bracket is closed at smallBreak (<= instead of <).
calculateMaxXTicksClosedSmall(w, m) ==
    IF w <= smallBreak THEN smallPoints
    ELSE IF w >= smallBreak /\ w <= mediumBreak THEN mediumPoints
    ELSE IF w > mediumBreak /\ w <= wideBreak
         THEN IF m = "time-comparison" THEN largePoints
              ELSE IF m = "item-comparison" THEN mediumPoints
              ELSE largePoints
    ELSE IF w > wideBreak
         THEN IF m = "time-comparison" THEN mostPoints
              ELSE IF m = "item-comparison" THEN largePoints
              ELSE largePoints
    ELSE largePoints

calculateMaxXTicks(w, m) ==
    IF w < smallBreak THEN smallPoints
    ELSE IF w >= smallBreak /\ w <= mediumBreak THEN mediumPoints
    ELSE IF w > mediumBreak /\ w <= wideBreak
         THEN IF m = "time-comparison" THEN largePoints
              ELSE IF m = "item-comparison" THEN mediumPoints
              ELSE largePoints
    ELSE IF w > wideBreak
         THEN IF m = "time-comparison" THEN mostPoints
              ELSE IF m = "item-comparison" THEN largePoints
              ELSE largePoints
    ELSE largePoints

(***************************************************************************)
(* getFirstDatePerMonth, utils.js lines 255-259.                           *)
(***************************************************************************)
\* Mutant: every date is compared with the first date of the list.
getFirstDatePerMonthFromFirst(dates) ==
    FilterIdx(dates,
              {i \in 1..Len(dates) :
                   i = 1 \/ getMonth(dates[i]) # getMonth(dates[1])})

getFirstDatePerMonth(dates) ==
    FilterIdx(dates,
              {i \in 1..Len(dates) :
                   i = 1 \/ getMonth(dates[i]) # getMonth(dates[i - 1])})

(***************************************************************************)
(* getXTicksFromIncrementFactor, utils.js lines 267-280.                   *)
(* The factor is <<f>>, or <<>> for JavaScript's undefined: then           *)
(* idx + undefined is NaN and the loop ends after its first iteration.     *)
(***************************************************************************)
StrideTicks(dates, factor, first) ==
    IF factor = <<>>
    THEN IF first <= Len(dates) THEN <<dates[first]>> ELSE <<>>
    ELSE LET f == factor[1]
         IN FilterIdx(dates, {i \in first..Len(dates) : (i - first) % f = 0})

\* If the first date is missing from the ticks array, add it back in.
\* (On an empty list both ticks[ 0 ] and uniqueDates[ 0 ] are undefined.)
AddFirstBack(dates, ticks) ==
    IF dates = <<>> THEN ticks
    ELSE IF ticks = <<>> \/ ticks[1] # dates[1] THEN <<dates[1]>> \o ticks
    ELSE ticks

\* Mutant: the loop starts at idx = 1 and the first date is not added back.
getXTicksFromIncrementFactorOffByOne(dates, factor) ==
    StrideTicks(dates, factor, 2)

getXTicksFromIncrementFactor(dates, factor) ==
    AddFirstBack(dates, StrideTicks(dates, factor, 1))

(***************************************************************************)
(* calculateXTicksIncrementFactor, utils.js lines 288-300.                 *)
(***************************************************************************)
\* The while loop entered with counter i: it leaves with the factors of the
\* first candidate length - i that has more than 3 of them.  Once the
\* candidate is 0 or negative getFactors returns [] for it and for every
\* later one, so the loop never leaves: spins is TRUE.
RECURSIVE FactorSearch(_, _)
FactorSearch(length, i) ==
    IF length - i <= 0 THEN [spins |-> TRUE, factors |-> <<>>, i |-> i]
    ELSE IF Len(getFactors(length - i)) > 3
         THEN [spins |-> FALSE, factors |-> getFactors(length - i), i |-> i + 1]
         ELSE FactorSearch(length, i + 1)

\* Array.prototype.find: <<the first element of s at an index in hits>> (the
\* indices at which the callback returns true), or <<>> for undefined.
Find(s, hits) ==
    IF hits = {} THEN <<>>
    ELSE <<s[CHOOSE k \in hits : \A j \in hits : k <= j]>>

\* Mutant: the quotient of the find predicate uses the reduced count
\* (uniqueDates.length - i) that was factorized, not uniqueDates.length.
calculateXTicksIncrementFactorReduced(dates, maxT) ==
    LET search == FactorSearch(Len(dates), 1)
        factors == search.factors
        reduced == Len(dates) - (search.i - 1)
    IN Find(factors, {k \in 1..Len(factors) : reduced < maxT * factors[k]})

\* Mutant: the loop repeats while factors.length < 3, so that a candidate
\* with exactly 3 factors (the square of a prime) ends the search.
RECURSIVE FactorSearchAtLeast3(_, _)
FactorSearchAtLeast3(length, i) ==
    IF length - i <= 0 THEN [spins |-> TRUE, factors |-> <<>>, i |-> i]
    ELSE IF Len(getFactors(length - i)) >= 3
         THEN [spins |-> FALSE, factors |-> getFactors(length - i), i |-> i + 1]
         ELSE FactorSearchAtLeast3(length, i + 1)

calculateXTicksIncrementFactorAtLeast3(dates, maxT) ==
    LET factors == FactorSearchAtLeast3(Len(dates), 1).factors
    IN Find(factors, {k \in 1..Len(factors) : Len(dates) < maxT * factors[k]})

\* uniqueDates.length / f < maxTicks, over the reals, with f > 0.
calculateXTicksIncrementFactor(dates, maxT) ==
    LET factors == FactorSearch(Len(dates), 1).factors
    IN Find(factors, {k \in 1..Len(factors) : Len(dates) < maxT * factors[k]})

(***************************************************************************)
(* getXTicks, utils.js lines 310-326.                                      *)
(***************************************************************************)
\* Mutant: the week threshold is compared with > instead of >=.
MonthCollapseStrictWeek(dates, intv) ==
    IF \/ (Len(dates) >= dayTicksThreshold /\ intv = "day")
       \/ (Len(dates) > weekTicksThreshold /\ intv = "week")
    THEN getFirstDatePerMonth(dates)
    ELSE dates

\* The reassignment of uniqueDates at lines 313-318.
MonthCollapse(dates, intv) ==
    IF \/ (Len(dates) >= dayTicksThreshold /\ intv = "day")
       \/ (Len(dates) >= weekTicksThreshold /\ intv = "week")
    THEN getFirstDatePerMonth(dates)
    ELSE dates

\* Mutant: the early return compares with < instead of <=.
getXTicksStrictReturn(dates, w, m, intv) ==
    LET maxT == calculateMaxXTicks(w, m)
        collapsed == MonthCollapse(dates, intv)
    IN IF Len(collapsed) < maxT THEN collapsed
       ELSE getXTicksFromIncrementFactor(
                collapsed, calculateXTicksIncrementFactor(collapsed, maxT))

getXTicks(dates, w, m, intv) ==
    LET maxT == calculateMaxXTicks(w, m)
        collapsed == MonthCollapse(dates, intv)
    IN IF Len(collapsed) <= maxT THEN collapsed
       ELSE getXTicksFromIncrementFactor(
                collapsed, calculateXTicksIncrementFactor(collapsed, maxT))

\* The locals of one call of getXTicks: maxTicks, the reassigned uniqueDates,
\* whether calculateXTicksIncrementFactor is called (earlyReturn FALSE) and,
\* if so, incrementFactor, the last length - i its loop factorized
\* (candidate) and whether that loop never leaves (spins).
XTicksLocals(dates, w, m, intv, earlyReturn) ==
    LET maxT == calculateMaxXTicks(w, m)
        collapsed == MonthCollapse(dates, intv)
        search == FactorSearch(Len(collapsed), 1)
    IN [maxTicks |-> maxT,
        uniqueDates |-> collapsed,
        called |-> ~earlyReturn,
        incrementFactor |->
            IF earlyReturn THEN <<>>
            ELSE calculateXTicksIncrementFactor(collapsed, maxT),
        candidate |-> IF earlyReturn THEN 0 ELSE Len(collapsed) - (search.i - 1),
        spins |-> ~earlyReturn /\ search.spins]

\* Mutant: the early return of lines 319-321 is missing.
getXTicksRunNoEarlyReturn(dates, w, m, intv) ==
    XTicksLocals(dates, w, m, intv, FALSE)

getXTicksRun(dates, w, m, intv) ==
    XTicksLocals(dates, w, m, intv,
                 Len(MonthCollapse(dates, intv)) <= calculateMaxXTicks(w, m))

(***************************************************************************)
(* getXLineScale, utils.js lines 173-176: the d3 time scale with domain    *)
(* [first date, last date] and rangeRound( [ 0, width ] ).  The scale of   *)
(* a date is Math.round( t * width ) with t the date's fraction of the     *)
(* domain, and t = 0.5 on a domain of one date.  Math.round rounds halves  *)
(* up.                                                                     *)
(***************************************************************************)
RoundDiv(num, den) == ((2 * num) + den) \div (2 * den)

getXLineScale(dates, w, date) ==
    LET first == dates[1]
        last == dates[Len(dates)]
    IN IF last = first THEN RoundDiv(w, 2)
       ELSE RoundDiv((date - first) * w, last - first)

(***************************************************************************)
(* getDateSpaces, utils.js lines 336-365.  start and width of a span are   *)
(* kept in half pixels, so that xWidth / 2 is exact: xLineScale[d] below   *)
(* is twice the pixel position, and w is twice the width argument.  The    *)
(* values field of a span (the data points of its date) is left out.       *)
(***************************************************************************)
DateSpace(dates, w, xLineScale, i) ==
    LET n == Len(dates)
        xNow == xLineScale[dates[i]]
        xPrev == IF i >= 2 THEN xLineScale[dates[i - 1]] ELSE xLineScale[dates[1]]
        xNext == IF i < n THEN xLineScale[dates[i + 1]] ELSE xLineScale[dates[n]]
        xWidth == IF i = 1 THEN xNext - xNow ELSE xNow - xPrev
        xStart == IF i = 1 THEN 0 ELSE xNow - (xWidth \div 2)
        xWidthEnd == IF i = 1 \/ i = n THEN xWidth \div 2 ELSE xWidth
    IN [date |-> dates[i],
        start |-> IF n > 1 THEN xStart ELSE 0,
        width |-> IF n > 1 THEN xWidthEnd ELSE w]

getDateSpaces(dates, w) ==
    LET xLineScale == [date \in Range(dates) |-> 2 * getXLineScale(dates, w, date)]
    IN [i \in 1..Len(dates) |-> DateSpace(dates, 2 * w, xLineScale, i)]

(***************************************************************************)
(* getYMax, utils.js lines 183-187.  Numbers are fixed-point: a value v    *)
(* of the model is the number v / ValueUnit.  4 / 3 * max is the fraction  *)
(* (4 * max) / 3.                                                          *)
(***************************************************************************)
ValueUnit == 100000

RECURSIVE Pow10(_)
Pow10(e) == IF e <= 0 THEN 1 ELSE 10 * Pow10(e - 1)

\* The number of decimal digits of the integer part q >= 1, less one:
\* floor( log10( x ) ) for every x with integer part q.
RECURSIVE FloorLog10(_)
FloorLog10(q) == IF q < 10 THEN 0 ELSE 1 + FloorLog10(q \div 10)

\* Math.ceil( num / den ), den > 0.
CeilDiv(num, den) == -((-num) \div den)

\* d3Max( lineData, d => d3Max( d.values.map( date => date.value ) ) )
Max(S) == CHOOSE x \in S : \A y \in S : x >= y
d3MaxOfSeries(data) == Max({Max(Range(data[k])) : k \in 1..Len(data)})

\* ( Math.log( yMax ) * Math.LOG10E + 1 ) | 0 for yMax = num / (3 * ValueUnit).
\* | 0 is ToInt32: it drops the fraction (rounds toward zero), and maps the
\* NaN of a negative yMax and the -Infinity of yMax = 0 to 0.
LogPlusOneToInt32(num) ==
    IF num <= 0 THEN 0
    ELSE LET unitLog == FloorLog10(ValueUnit)
             floorLog == FloorLog10(num \div 3) - unitLog
             exact == num = 3 * Pow10(FloorLog10(num \div 3))
         IN IF floorLog + 1 >= 0 \/ exact
            THEN floorLog + 1
            ELSE floorLog + 2

\* (pow3Y is 3 * 10^exponent; in value units that is a whole number as long
\* as exponent >= -log10( ValueUnit ), which holds for every value >= 10
\* value units.)
YMaxOf(maxValue) ==
    LET num == 4 * maxValue
        exponent == LogPlusOneToInt32(num) - 2
        pow3Y == 3 * Pow10(exponent + FloorLog10(ValueUnit))
    IN CeilDiv(num, 3 * pow3Y) * pow3Y

getYMax(data) == YMaxOf(d3MaxOfSeries(data))

(***************************************************************************)
(* calculateTooltipXPosition, utils.js lines 538-571.  The ratio is given  *)
(* in quarters (0..4 for 0, 0.25, 0.5, 0.75, 1); element widths are        *)
(* multiples of 4 and tooltip widths are even, so every quotient is exact. *)
(***************************************************************************)
RatioDen == 4

\* Mutant: the flipped position anchors from the same side ( ratio instead
\* of 1 - ratio ).
XFlippedSameSide(elementC, chartC, tooltipS, tooltipMargin, ratio) ==
    elementC.left + ((elementC.width * ratio) \div RatioDen)
        - tooltipS.width - tooltipMargin - chartC.left

XFlipped(elementC, chartC, tooltipS, tooltipMargin, ratio) ==
    elementC.left + ((elementC.width * (RatioDen - ratio)) \div RatioDen)
        - tooltipS.width - tooltipMargin - chartC.left

MaxOf(a, b) == IF a >= b THEN a ELSE b
MinOf(a, b) == IF a <= b THEN a ELSE b

\* Mutant: the flipped position is returned without Math.max( tooltipMargin, ... ).
calculateTooltipXPositionNoClamp(elementC, chartC, tooltipS, tooltipMargin, ratio, tPosition) ==
    LET xPosition == elementC.left + ((elementC.width * ratio) \div RatioDen)
                         + tooltipMargin - chartC.left
    IN IF tPosition = "below"
       THEN MaxOf(tooltipMargin,
                  MinOf(xPosition - (tooltipS.width \div 2),
                        chartC.width - tooltipS.width - tooltipMargin))
       ELSE IF xPosition + tooltipS.width + tooltipMargin > chartC.width
            THEN XFlipped(elementC, chartC, tooltipS, tooltipMargin, ratio)
            ELSE xPosition

calculateTooltipXPosition(elementC, chartC, tooltipS, tooltipMargin, ratio, tPosition) ==
    LET xPosition == elementC.left + ((elementC.width * ratio) \div RatioDen)
                         + tooltipMargin - chartC.left
    IN IF tPosition = "below"
       THEN MaxOf(tooltipMargin,
                  MinOf(xPosition - (tooltipS.width \div 2),
                        chartC.width - tooltipS.width - tooltipMargin))
       ELSE IF xPosition + tooltipS.width + tooltipMargin > chartC.width
            THEN MaxOf(tooltipMargin,
                       XFlipped(elementC, chartC, tooltipS, tooltipMargin, ratio))
            ELSE xPosition

(***************************************************************************)
(* calculateTooltipYPosition, utils.js lines 573-590.                      *)
(***************************************************************************)
calculateTooltipYPosition(elementC, chartC, tooltipS, tooltipMargin, tPosition) ==
    IF tPosition = "below" THEN chartC.height
    ELSE LET yPosition == elementC.top + tooltipMargin - chartC.top
         IN IF yPosition + tooltipS.height + tooltipMargin > chartC.height
            THEN MaxOf(0, elementC.top - tooltipS.height - tooltipMargin - chartC.top)
            ELSE yPosition

(***************************************************************************)
(* calculateTooltipPosition, utils.js lines 592-621.                       *)
(***************************************************************************)
TooltipMargin == 24

\* Mutant: the caller's ratio is used in 'below' mode too.
calculateTooltipPositionRatioKept(elementC, chartC, tooltipS, tPosition, ratio) ==
    [x |-> calculateTooltipXPosition(
               elementC, chartC, tooltipS, TooltipMargin, ratio, tPosition),
     y |-> calculateTooltipYPosition(
               elementC, chartC, tooltipS, TooltipMargin, tPosition)]

calculateTooltipPosition(elementC, chartC, tooltipS, tPosition, ratio) ==
    LET usedRatio == IF tPosition = "below" THEN 0 ELSE ratio
    IN [x |-> calculateTooltipXPosition(
                  elementC, chartC, tooltipS, TooltipMargin, usedRatio, tPosition),
        y |-> calculateTooltipYPosition(
                  elementC, chartC, tooltipS, TooltipMargin, tPosition)]

(***************************************************************************)
(* getColor, utils.js lines 124-141.  A number is the fraction <<num,      *)
(* den>>; <<>> is JavaScript's undefined.  The entries of smallColorScales *)
(* are thousandths.  The value is the argument params.colorScheme gets.    *)
(***************************************************************************)
ScaleDen == 1000

smallColorScales ==
    << <<>>, <<500>>, <<333, 667>>, <<200, 500, 800>>, <<120, 375, 625, 880>> >>

\* lodash findIndex( array, d => d.key === key ): zero-based, -1 if no entry
\* has the key.
findIndex(orderedKeys, k) ==
    IF \E i \in 1..Len(orderedKeys) : orderedKeys[i].key = k
    THEN (CHOOSE i \in 1..Len(orderedKeys) :
              /\ orderedKeys[i].key = k
              /\ \A j \in 1..(i - 1) : orderedKeys[j].key # k) - 1
    ELSE -1

\* Mutant: the index is divided by the length of the list.
getColorDividedByLength(k, params) ==
    LET len == Len(params.orderedKeys)
        idx == findIndex(params.orderedKeys, k)
    IN IF len < 5
       THEN IF idx >= 0 /\ idx < len
            THEN <<smallColorScales[len + 1][idx + 1], ScaleDen>>
            ELSE <<>>
       ELSE <<idx, len>>

getColor(k, params) ==
    LET len == Len(params.orderedKeys)
        idx == findIndex(params.orderedKeys, k)
    IN IF len < 5
       THEN IF idx >= 0 /\ idx < len
            THEN <<smallColorScales[len + 1][idx + 1], ScaleDen>>
            ELSE <<>>
       ELSE <<idx, len - 1>>

(***************************************************************************)
(* getUniqueKeys and getOrderedKeys, utils.js lines 60-85.  A row of the   *)
(* data prop is [date, series], series the list of its [key, value]        *)
(* properties in the order of Object.keys.                                 *)
(***************************************************************************)
getUniqueKeys(data) ==
    LET Accum[k \in 0..Len(data)] ==
            IF k = 0 THEN <<>>
            ELSE Accum[k - 1]
                     \o [i \in 1..Len(data[k].series) |-> data[k].series[i].key]
        accum == Accum[Len(data)]
    IN FilterIdx(accum,
                 {i \in 1..Len(accum) : \A j \in 1..(i - 1) : accum[j] # accum[i]})

\* c[ key ].value
ValueOf(row, k) ==
    row.series[CHOOSE i \in 1..Len(row.series) : row.series[i].key = k].value

\* Array.prototype.sort( ( a, b ) => b.total - a.total ): descending by
\* total, entries of equal total in their former order.
RECURSIVE InsertByTotal(_, _)
InsertByTotal(x, s) ==
    IF s = <<>> THEN <<x>>
    ELSE IF x.total > Head(s).total THEN <<x>> \o s
    ELSE <<Head(s)>> \o InsertByTotal(x, Tail(s))

getOrderedKeys(data, uniqueKeys) ==
    LET Total[k \in 1..Len(uniqueKeys)] ==
            LET Sum[r \in 0..Len(data)] ==
                    IF r = 0 THEN 0 ELSE Sum[r - 1] + ValueOf(data[r], uniqueKeys[k])
            IN Sum[Len(data)]
        mapped == [k \in 1..Len(uniqueKeys) |->
                      [key |-> uniqueKeys[k], focus |-> TRUE,
                       total |-> Total[k], visible |-> TRUE]]
        Sorted[k \in 0..Len(mapped)] ==
            IF k = 0 THEN <<>> ELSE InsertByTotal(mapped[k], Sorted[k - 1])
    IN Sorted[Len(mapped)]

(***************************************************************************)
(* getXGroupScale, utils.js lines 161-165: the domain of the band scale.   *)
(* An optional value is <<v>>, or <<>> for JavaScript's undefined; calling *)
(* .filter on undefined throws a TypeError.                                *)
(***************************************************************************)
getXGroupScale(orderedKeys) ==
    IF orderedKeys = <<>>
    THEN [error |-> "TypeError", domain |-> <<>>]
    ELSE LET visibleKeys ==
                 FilterIdx(orderedKeys[1],
                           {i \in 1..Len(orderedKeys[1]) : orderedKeys[1][i].visible})
         IN [error |-> "",
             domain |-> [i \in 1..Len(visibleKeys) |-> visibleKeys[i].key]]

(***************************************************************************)
(* D3Chart, index.js lines 41-182.                                         *)
(***************************************************************************)
\* getAllData, lines 71-75.
getAllData(p) ==
    LET orderedKeys ==
            IF p.orderedKeys # <<>> THEN p.orderedKeys[1]
            ELSE getOrderedKeys(p.data, getUniqueKeys(p.data))
    IN p.data \o orderedKeys

\* Array.prototype.sort() without a comparator orders the elements by their
\* string images; the image of every object is "[object Object]", image 0.
StringImage(x) == 0

RECURSIVE InsertByImage(_, _)
InsertByImage(x, s) ==
    IF s = <<>> THEN <<x>>
    ELSE IF StringImage(x) < StringImage(Head(s)) THEN <<x>> \o s
    ELSE <<Head(s)>> \o InsertByImage(x, Tail(s))

DefaultSort(s) ==
    LET Sorted[k \in 0..Len(s)] ==
            IF k = 0 THEN <<>> ELSE InsertByImage(s[k], Sorted[k - 1])
    IN Sorted[Len(s)]

\* lodash isEqual: deep equality.
isEqual(a, b) == a = b

\* The constructor's this.state, lines 47-51.
InitialState(p) == [allData |-> getAllData(p), type |-> p.type, width |-> p.width]

\* setState merges the given fields into the state; a field not set is <<>>.
NoUpdate == [width |-> <<>>, allData |-> <<>>, type |-> <<>>]

MergeState(s, update) ==
    [width |-> IF update.width # <<>> THEN update.width[1] ELSE s.width,
     allData |-> IF update.allData # <<>> THEN update.allData[1] ELSE s.allData,
     type |-> IF update.type # <<>> THEN update.type[1] ELSE s.type]

\* componentDidUpdate, lines 55-69: the setState calls it makes.
componentDidUpdate(p, prevP, prevS) ==
    LET nextAllData == getAllData(p)
    IN [width |-> IF p.width # prevP.width THEN <<p.width>> ELSE <<>>,
        allData |->
            IF ~isEqual(DefaultSort(nextAllData), DefaultSort(prevS.allData))
            THEN <<nextAllData>> ELSE <<>>,
        type |-> IF p.type # prevP.type THEN <<p.type>> ELSE <<>>]

\* getParams, lines 96-159: the fields of the returned object that depend on
\* the keys, and the error thrown while the object is built.
getParams(p, s, node) ==
    LET calculatedWidth == IF s.width > 0 THEN s.width ELSE node.offsetWidth
        uniqueKeys == getUniqueKeys(p.data)
        newOrderedKeys ==
            IF p.orderedKeys # <<>> THEN p.orderedKeys[1]
            ELSE getOrderedKeys(p.data, uniqueKeys)
        xGroupScale == getXGroupScale(p.orderedKeys)
    IN IF xGroupScale.error # ""
       THEN [error |-> xGroupScale.error, orderedKeys |-> <<>>, uniqueKeys |-> <<>>,
             xGroupScale |-> <<>>, type |-> "", width |-> 0]
       ELSE [error |-> "", orderedKeys |-> newOrderedKeys, uniqueKeys |-> uniqueKeys,
             xGroupScale |-> xGroupScale.domain, type |-> p.type,
             width |-> calculatedWidth]

(***************************************************************************)
(* Inputs of the tick planner.                                             *)
(***************************************************************************)
\* Evenly spaced lists: hourly or daily (step 1), weekly (7), monthly (30).
RegularDates(start, step, n) == [i \in 1..n |-> start + step * (i - 1)]

RegularLists ==
    {RegularDates(start, step, n) :
        start \in {0, 20}, step \in {1, 7, 30}, n \in 0..MaxDates}

\* Unevenly spaced lists: the larger subsets of a pool of days, neighbours
\* of which lie in the same month, in the next month, or in the same month
\* of the next year.
DayPool == {(17 * k) + (348 * (k \div 2)) : k \in 0..(PoolSize - 1)}

IrregularLists ==
    {SetToSortedSeq(S) : S \in {T \in SUBSET DayPool : Cardinality(T) >= PoolSize - 2}}

TickDateLists == RegularLists \cup IrregularLists

Widths ==
    {smallBreak - 1, smallBreak, mediumBreak, mediumBreak + 1, wideBreak, wideBreak + 1}

Modes == {"item-comparison", "time-comparison"}

Intervals == {"hour", "day", "week"}

(***************************************************************************)
(* SpecTicks: one call of getXTicks (which calls calculateMaxXTicks).      *)
(***************************************************************************)
\* The values of the variables a specification does not use.
IdleAxis == uniqueDates = <<>> /\ width = 0
IdleTicks ==
    /\ mode = ""
    /\ interval = ""
    /\ maxTicks = 0
    /\ collapsedDates = <<>>
    /\ incrementFactor = <<>>
    /\ xTicks = <<>>
IdleSpaces == dateSpaces = <<>>
IdleFactors == inputNum = 0 /\ numFactors = <<>>
IdleYMax == lineData = <<>> /\ yMax = 0
IdleTooltip ==
    /\ elementCoords = <<>>
    /\ chartCoords = <<>>
    /\ tooltipSize = <<>>
    /\ elementWidthRatio = 0
    /\ tooltipPosition = ""
    /\ position = <<>>
IdleMonths == firstDates = <<>>
IdleColor == colorKey = 0 /\ paramsOrderedKeys = <<>> /\ keyValue = <<>>
IdleChart ==
    /\ props = <<>>
    /\ state = <<>>
    /\ prevProps = <<>>
    /\ prevState = <<>>
    /\ pendingState = <<>>
    /\ setStateChain = 0
    /\ chartParams = <<>>

InitTicks ==
    /\ pc = "start"
    /\ uniqueDates \in TickDateLists
    /\ width \in Widths
    /\ mode \in Modes
    /\ interval \in Intervals
    /\ maxTicks = 0
    /\ collapsedDates = <<>>
    /\ incrementFactor = <<>>
    /\ xTicks = <<>>
    /\ IdleSpaces /\ IdleFactors /\ IdleYMax /\ IdleTooltip
    /\ IdleMonths
    /\ IdleColor
    /\ IdleChart

\* The call returns (pc "done") unless the while loop of
\* calculateXTicksIncrementFactor never leaves (pc "spinning").
GetXTicks ==
    /\ pc = "start"
    /\ LET run == getXTicksRun(uniqueDates, width, mode, interval)
       IN /\ maxTicks' = run.maxTicks
          /\ collapsedDates' = run.uniqueDates
          /\ incrementFactor' = run.incrementFactor
          /\ pc' = IF run.spins THEN "spinning" ELSE "done"
          /\ xTicks' = IF run.spins THEN <<>>
                       ELSE getXTicks(uniqueDates, width, mode, interval)
    /\ UNCHANGED <<axisVars, mode, interval>>
    /\ UNCHANGED <<spacesVars, factorsVars, yMaxVars, tooltipVars>>
    /\ UNCHANGED monthsVars
    /\ UNCHANGED colorVars
    /\ UNCHANGED chartVars

NextTicks == GetXTicks

SpecTicks == InitTicks /\ [][NextTicks]_vars

(***************************************************************************)
(* SpecFactors: one call of getFactors.                                    *)
(***************************************************************************)
InitFactors ==
    /\ pc = "start"
    /\ inputNum \in (-2)..MaxFactorInput
    /\ numFactors = <<>>
    /\ IdleAxis /\ IdleTicks /\ IdleSpaces /\ IdleYMax /\ IdleTooltip
    /\ IdleMonths
    /\ IdleColor
    /\ IdleChart

GetFactors ==
    /\ pc = "start"
    /\ numFactors' = getFactors(inputNum)
    /\ pc' = "done"
    /\ UNCHANGED <<inputNum, axisVars, ticksVars, spacesVars, yMaxVars, tooltipVars>>
    /\ UNCHANGED monthsVars
    /\ UNCHANGED colorVars
    /\ UNCHANGED chartVars

NextFactors == GetFactors

SpecFactors == InitFactors /\ [][NextFactors]_vars

(***************************************************************************)
(* SpecSpaces: one call of getDateSpaces with the scale of getXLineScale,  *)
(* as D3Chart.getParams calls it (index.js lines 127-132).                 *)
(***************************************************************************)
SpaceDateLists == {SetToSortedSeq(S) : S \in SUBSET (0..MaxDay)}

SpaceWidths == {7, 30, 46, 600}

InitSpaces ==
    /\ pc = "start"
    /\ uniqueDates \in SpaceDateLists
    /\ width \in SpaceWidths
    /\ dateSpaces = <<>>
    /\ IdleTicks /\ IdleFactors /\ IdleYMax /\ IdleTooltip
    /\ IdleMonths
    /\ IdleColor
    /\ IdleChart

GetDateSpaces ==
    /\ pc = "start"
    /\ dateSpaces' = getDateSpaces(uniqueDates, width)
    /\ pc' = "done"
    /\ UNCHANGED <<axisVars, ticksVars, factorsVars, yMaxVars, tooltipVars>>
    /\ UNCHANGED monthsVars
    /\ UNCHANGED colorVars
    /\ UNCHANGED chartVars

NextSpaces == GetDateSpaces

SpecSpaces == InitSpaces /\ [][NextSpaces]_vars

(***************************************************************************)
(* SpecYMax: one call of getYMax on two series.                            *)
(***************************************************************************)
PositiveValues == {m * Pow10(k) : m \in 1..MaxMantissa, k \in 1..MaxExponent}

SeriesValues == PositiveValues \cup {0} \cup {-v : v \in PositiveValues}

InitYMax ==
    /\ pc = "start"
    /\ \E v \in SeriesValues, low \in {0, 10} :
           lineData = << <<v - low, v>>, <<v - low>> >>
    /\ yMax = 0
    /\ IdleAxis /\ IdleTicks /\ IdleSpaces /\ IdleFactors /\ IdleTooltip
    /\ IdleMonths
    /\ IdleColor
    /\ IdleChart

GetYMax ==
    /\ pc = "start"
    /\ yMax' = getYMax(lineData)
    /\ pc' = "done"
    /\ UNCHANGED <<lineData, axisVars, ticksVars, spacesVars, factorsVars, tooltipVars>>
    /\ UNCHANGED monthsVars
    /\ UNCHANGED colorVars
    /\ UNCHANGED chartVars

NextYMax == GetYMax

SpecYMax == InitYMax /\ [][NextYMax]_vars

(***************************************************************************)
(* SpecTooltip: one call of calculateTooltipPosition.                      *)
(***************************************************************************)
Rect(l, t, w, h) == [left |-> l, top |-> t, width |-> w, height |-> h]

ElementRects ==
    {Rect(l, t, w, h) :
        l \in {0, 8, 48, 96, 152}, t \in {0, 8, 40, 100}, w \in {0, 8, 64}, h \in {0, 16}}

ChartRects == {Rect(l, 8, w, h) : l \in {0, 8}, w \in {96, 160}, h \in {72, 120}}

TooltipRects == {Rect(0, 0, w, h) : w \in {40, 48, 120}, h \in {24, 40, 80}}

InitTooltip ==
    /\ pc = "start"
    /\ elementCoords \in ElementRects
    /\ chartCoords \in ChartRects
    /\ tooltipSize \in TooltipRects
    /\ elementWidthRatio \in 0..RatioDen
    /\ tooltipPosition \in {"over", "below"}
    /\ position = <<>>
    /\ IdleAxis /\ IdleTicks /\ IdleSpaces /\ IdleFactors /\ IdleYMax
    /\ IdleMonths
    /\ IdleColor
    /\ IdleChart

CalculateTooltipPosition ==
    /\ pc = "start"
    /\ position' = calculateTooltipPosition(
                       elementCoords, chartCoords, tooltipSize, tooltipPosition,
                       elementWidthRatio)
    /\ pc' = "done"
    /\ UNCHANGED <<elementCoords, chartCoords, tooltipSize, elementWidthRatio,
                   tooltipPosition>>
    /\ UNCHANGED <<axisVars, ticksVars, spacesVars, factorsVars, yMaxVars>>
    /\ UNCHANGED monthsVars
    /\ UNCHANGED colorVars
    /\ UNCHANGED chartVars

NextTooltip == CalculateTooltipPosition

SpecTooltip == InitTooltip /\ [][NextTooltip]_vars

(***************************************************************************)
(* SpecMonths: one call of getFirstDatePerMonth on a list of unique dates  *)
(* in ascending order: every subset of the pool of days and every evenly   *)
(* spaced list.                                                            *)
(***************************************************************************)
MonthDateLists == {SetToSortedSeq(S) : S \in SUBSET DayPool} \cup RegularLists

InitMonths ==
    /\ pc = "start"
    /\ uniqueDates \in MonthDateLists
    /\ width = 0
    /\ firstDates = <<>>
    /\ IdleTicks /\ IdleSpaces /\ IdleFactors /\ IdleYMax /\ IdleTooltip
    /\ IdleColor
    /\ IdleChart

GetFirstDatePerMonth ==
    /\ pc = "start"
    /\ firstDates' = getFirstDatePerMonth(uniqueDates)
    /\ pc' = "done"
    /\ UNCHANGED <<axisVars, ticksVars, spacesVars, factorsVars, yMaxVars, tooltipVars>>
    /\ UNCHANGED colorVars
    /\ UNCHANGED chartVars

NextMonths == GetFirstDatePerMonth

SpecMonths == InitMonths /\ [][NextMonths]_vars

(***************************************************************************)
(* SpecColor: one call of getColor with the ordered keys of a chart, most  *)
(* of the time for a key of the list.                                      *)
(***************************************************************************)
KeyEntry(k, t, v) == [key |-> k, focus |-> TRUE, total |-> t, visible |-> v]

\* The keys 1..n in ascending or in descending order.
OrderedKeyLists ==
    UNION {{[i \in 1..n |-> KeyEntry(i, 0, TRUE)],
            [i \in 1..n |-> KeyEntry(n + 1 - i, 0, TRUE)]} :
              n \in 0..MaxKeys}

InitColor ==
    /\ pc = "start"
    /\ colorKey \in 1..MaxKeys
    /\ paramsOrderedKeys \in OrderedKeyLists
    /\ keyValue = <<>>
    /\ IdleAxis /\ IdleTicks /\ IdleSpaces /\ IdleFactors /\ IdleYMax /\ IdleTooltip
    /\ IdleMonths
    /\ IdleChart

GetColor ==
    /\ pc = "start"
    /\ keyValue' = getColor(colorKey, [orderedKeys |-> paramsOrderedKeys])
    /\ pc' = "done"
    /\ UNCHANGED <<colorKey, paramsOrderedKeys>>
    /\ UNCHANGED <<axisVars, ticksVars, spacesVars, factorsVars, yMaxVars, tooltipVars>>
    /\ UNCHANGED monthsVars
    /\ UNCHANGED chartVars

NextColor == GetColor

SpecColor == InitColor /\ [][NextColor]_vars

(***************************************************************************)
(* SpecChart: a mounted D3Chart.  React renders and commits an update when *)
(* the parent passes props or when setState calls are queued, both in one  *)
(* update when the parent's and the chart's componentDidUpdate both call   *)
(* setState in the same commit.  D3Base, the child, draws through          *)
(* getParams (index.js lines 170-177) before componentDidUpdate of the     *)
(* chart runs; render returns null for empty data (lines 162-164).         *)
(* pc: "idle" nothing queued, "pending" setState calls queued,             *)
(* "committed" componentDidUpdate is due, "crashed" getParams threw.       *)
(***************************************************************************)
Row(d, v1, v2) ==
    [date |-> d, series |-> << [key |-> 1, value |-> v1], [key |-> 2, value |-> v2] >>]

\* No rows; one row (key 1 has the larger total); two rows (key 2 has).
ChartData == {<<>>, <<Row(0, 5, 3)>>, <<Row(0, 5, 3), Row(1, 1, 9)>>}

\* The orderedKeys prop: not given, or a list with a hidden key.
ChartOrderedKeys ==
    {<<>>, << <<KeyEntry(1, 8, TRUE), KeyEntry(2, 6, FALSE)>> >>}

ChartProps ==
    [width : {600, 800}, type : {"line", "bar"}, data : ChartData,
     orderedKeys : ChartOrderedKeys]

ChartNode == [offsetWidth |-> 600]

\* The draw of the current commit is done, or there is nothing to draw.
Drawn == props.data = <<>> \/ chartParams # <<>>

InitChart ==
    /\ pc = "idle"
    /\ props \in ChartProps
    /\ state = InitialState(props)
    /\ prevProps = props
    /\ prevState = state
    /\ pendingState = NoUpdate
    /\ setStateChain = 0
    /\ chartParams = <<>>
    /\ IdleAxis /\ IdleTicks /\ IdleSpaces /\ IdleFactors /\ IdleYMax /\ IdleTooltip
    /\ IdleMonths
    /\ IdleColor

Render ==
    /\ pc \in {"idle", "pending"}
    /\ Drawn
    /\ \E nextProps \in ChartProps :
           /\ pc = "pending" \/ nextProps # props
           /\ props' = nextProps
           /\ setStateChain' = IF nextProps # props THEN 0 ELSE setStateChain
    /\ prevProps' = props
    /\ prevState' = state
    /\ state' = MergeState(state, pendingState)
    /\ pendingState' = NoUpdate
    /\ chartParams' = <<>>
    /\ pc' = "committed"
    /\ UNCHANGED <<axisVars, ticksVars, spacesVars, factorsVars, yMaxVars, tooltipVars>>
    /\ UNCHANGED <<monthsVars, colorVars>>

GetParams ==
    /\ pc \in {"idle", "committed"}
    /\ props.data # <<>>
    /\ chartParams = <<>>
    /\ LET params == getParams(props, state, ChartNode)
       IN /\ chartParams' = <<params>>
          /\ pc' = IF params.error # "" THEN "crashed" ELSE pc
    /\ UNCHANGED <<props, state, prevProps, prevState, pendingState, setStateChain>>
    /\ UNCHANGED <<axisVars, ticksVars, spacesVars, factorsVars, yMaxVars, tooltipVars>>
    /\ UNCHANGED <<monthsVars, colorVars>>

ComponentDidUpdate ==
    /\ pc = "committed"
    /\ Drawn
    /\ LET update == componentDidUpdate(props, prevProps, prevState)
       IN /\ pendingState' = update
          /\ pc' = IF update = NoUpdate THEN "idle" ELSE "pending"
          /\ setStateChain' =
                 IF update = NoUpdate THEN setStateChain
                 ELSE MinOf(setStateChain + 1, MaxChain)
    /\ UNCHANGED <<props, state, prevProps, prevState, chartParams>>
    /\ UNCHANGED <<axisVars, ticksVars, spacesVars, factorsVars, yMaxVars, tooltipVars>>
    /\ UNCHANGED <<monthsVars, colorVars>>

NextChart == Render \/ GetParams \/ ComponentDidUpdate

SpecChart == InitChart /\ [][NextChart]_vars

(***************************************************************************)
(* Properties of the tick planner.                                         *)
(***************************************************************************)
\* The position of date x in the list s of unique dates.
IndexOf(s, x) == CHOOSE i \in 1..Len(s) : s[i] = x

\* t takes every element from s, in the order of s, none twice.
IsSubsequence(t, s) ==
    /\ \A i \in 1..Len(t) : t[i] \in Range(s)
    /\ \A i, j \in 1..Len(t) : i < j => IndexOf(s, t[i]) < IndexOf(s, t[j])

\* The month collapse as the specification words it: keep index 0 and every
\* date whose month differs from the month of the most recently kept date.
RECURSIVE KeepOnMonthChange(_, _)
KeepOnMonthChange(dates, kept) ==
    IF dates = <<>> THEN kept
    ELSE IF kept = <<>> \/ getMonth(Head(dates)) # getMonth(kept[Len(kept)])
         THEN KeepOnMonthChange(Tail(dates), Append(kept, Head(dates)))
         ELSE KeepOnMonthChange(Tail(dates), kept)

\* The list that enters the comparison with maxTicks.
ListAfterCollapse ==
    IF \/ (interval = "day" /\ Len(uniqueDates) >= 63)
       \/ (interval = "week" /\ Len(uniqueDates) >= 9)
    THEN KeepOnMonthChange(uniqueDates, <<>>)
    ELSE uniqueDates

\* The lookup table of the tick budget, by bracket of the width.
MaxTicksTable(w, m) ==
    CASE w < 783 -> 7
      [] w >= 783 /\ w <= 1130 -> 12
      [] w > 1130 /\ w <= 1365 -> IF m = "time-comparison" THEN 16 ELSE 12
      [] w > 1365 -> IF m = "time-comparison" THEN 31 ELSE 16

\* C1: for every sorted list of unique dates, every width, every mode in
\* {item-comparison, time-comparison} and every interval, the list returned
\* by getXTicks has at most calculateMaxXTicks(width, mode) entries.
C1_TicksWithinBudget ==
    pc = "done" => Len(xTicks) <= calculateMaxXTicks(width, mode)

\* C1 witness: a list longer than the budget was thinned to exactly the
\* budget.
C1_Witness ==
    /\ pc = "done"
    /\ Len(ListAfterCollapse) > maxTicks
    /\ Len(xTicks) = maxTicks

\* C2: for every non-empty sorted list of unique dates, the list returned by
\* getXTicks is a subsequence of the input (same order, no repeats, every
\* element from the input) and starts with the first input date.
C2_TicksSubsequence ==
    (pc = "done" /\ uniqueDates # <<>>) =>
        /\ IsSubsequence(xTicks, uniqueDates)
        /\ xTicks # <<>>
        /\ xTicks[1] = uniqueDates[1]

\* C2 witness: a weekly list was collapsed to months and then thinned.
C2_Witness ==
    /\ pc = "done"
    /\ interval = "week"
    /\ Len(ListAfterCollapse) < Len(uniqueDates)
    /\ Len(xTicks) < Len(ListAfterCollapse)
    /\ Len(xTicks) > 1

\* C9: calculateMaxXTicks is the lookup table 7 / 12 / 16 or 12 / 31 or 16
\* with breakpoints 783, 1130 and 1365; time-comparison gets strictly more
\* points than item-comparison in the two upper brackets and the same in the
\* two lower ones.
C9_MaxTicksTable ==
    pc = "done" =>
        /\ maxTicks = MaxTicksTable(width, mode)
        /\ width > 1130 =>
               calculateMaxXTicks(width, "time-comparison")
                   > calculateMaxXTicks(width, "item-comparison")
        /\ width <= 1130 =>
               calculateMaxXTicks(width, "time-comparison")
                   = calculateMaxXTicks(width, "item-comparison")

\* C9 witness: the widest bracket in time-comparison mode.
C9_Witness ==
    pc = "done" /\ width > wideBreak /\ mode = "time-comparison" /\ maxTicks = 31

\* C10: when the date list (after the optional month collapse) has at most
\* calculateMaxXTicks(width, mode) entries, getXTicks returns that list
\* unchanged; a list of one date is returned as that single date.
C10_ShortListUnchanged ==
    pc = "done" =>
        /\ Len(ListAfterCollapse) <= calculateMaxXTicks(width, mode) =>
               xTicks = ListAfterCollapse
        /\ Len(uniqueDates) = 1 => xTicks = uniqueDates

\* C10 witness: a collapsed list of exactly maxTicks months came back whole.
C10_Witness ==
    /\ pc = "done"
    /\ Len(ListAfterCollapse) < Len(uniqueDates)
    /\ Len(ListAfterCollapse) = maxTicks
    /\ xTicks = ListAfterCollapse

\* The locals of the call of getXTicks on the inputs of the state.
TicksRun == getXTicksRun(uniqueDates, width, mode, interval)

\* C11: getXTicks collapses the date list to the first date of each month
\* exactly when (interval is 'day' and the list has at least 63 dates) or
\* (interval is 'week' and the list has at least 9 dates); otherwise the
\* dates enter the max-ticks comparison uncollapsed.  70 consecutive daily
\* dates collapse to at most 12 entries.
C11_CollapseThresholds ==
    pc = "done" =>
        /\ collapsedDates = ListAfterCollapse
        /\ ~(\/ (interval = "day" /\ Len(uniqueDates) >= 63)
             \/ (interval = "week" /\ Len(uniqueDates) >= 9)) =>
               collapsedDates = uniqueDates
        /\ (/\ interval = "day"
            /\ Len(uniqueDates) = 70
            /\ \A i \in 2..Len(uniqueDates) : uniqueDates[i] = uniqueDates[i - 1] + 1) =>
               Len(collapsedDates) <= 12

\* C11 witness: 70 consecutive daily dates were collapsed to month starts.
C11_Witness ==
    /\ pc = "done"
    /\ interval = "day"
    /\ Len(uniqueDates) = 70
    /\ \A i \in 2..Len(uniqueDates) : uniqueDates[i] = uniqueDates[i - 1] + 1
    /\ Len(collapsedDates) > 1
    /\ Len(collapsedDates) <= 12

\* The number of positive divisors of n (none for n <= 0).
NumDivisors(n) == Cardinality({d \in 1..n : n % d = 0})

\* i is the least integer >= 1 for which count - i has more than 3 divisors.
IsLeastShift(count, i) ==
    /\ NumDivisors(count - i) > 3
    /\ \A j \in 1..(i - 1) : NumDivisors(count - j) <= 3

\* f is the smallest divisor of n with count / f < maxT.
IsSmallestFittingDivisor(f, n, count, maxT) ==
    /\ f \in 1..n /\ n % f = 0 /\ count < maxT * f
    /\ \A d \in 1..(f - 1) : ~(n % d = 0 /\ count < maxT * d)

C17_GetXTicksTerminates ==
    /\ pc \in {"start", "done"}
    /\ (pc = "done" /\ TicksRun.called) =>
           /\ Len(collapsedDates) > 7
           /\ TicksRun.candidate >= 6

\* C17 witness: a list of 8 dates was thinned; the search passed over the
\* prime 7 and stopped at 6.
C17_Witness ==
    /\ pc = "done"
    /\ TicksRun.called
    /\ Len(collapsedDates) = 8
    /\ TicksRun.candidate = 6
    /\ Len(xTicks) < 8

\* C14: for every date list, getFirstDatePerMonth, which compares the month
\* number of a date with that of the date right before it in the input,
\* returns the list of the rule that keeps index 0 and every date whose
\* month number differs from that of the most recently kept date.
C14_MonthCollapseEquivalence ==
    pc = "done" => firstDates = KeepOnMonthChange(uniqueDates, <<>>)

\* C14 witness: a list in which a dropped date lies between two kept ones
\* and a date of the same month of another year follows a kept date, so
\* that the preceding date and the most recently kept date differ.
C14_Witness ==
    /\ pc = "done"
    /\ Len(firstDates) >= 3
    /\ Len(firstDates) < Len(uniqueDates)
    /\ \E i \in 3..Len(uniqueDates) :
           /\ uniqueDates[i] \in Range(firstDates)
           /\ uniqueDates[i - 1] \notin Range(firstDates)
    /\ \E i \in 2..Len(uniqueDates) :
           /\ uniqueDates[i] - uniqueDates[i - 1] > 31
           /\ uniqueDates[i] \notin Range(firstDates)

(***************************************************************************)
(* Properties of the factorizer.                                           *)
(***************************************************************************)
Divisors(n) == {d \in 1..n : n % d = 0}

\* C5: for every positive integer n, getFactors(n) is exactly the set of
\* positive divisors of n (1 and n included, each once), in ascending order,
\* so the elements at positions k and length-1-k multiply to n.
C5_FactorsAreDivisors ==
    (pc = "done" /\ inputNum >= 1) =>
        /\ Range(numFactors) = Divisors(inputNum)
        /\ Len(numFactors) = Cardinality(Divisors(inputNum))
        /\ \A i, j \in 1..Len(numFactors) : i < j => numFactors[i] < numFactors[j]
        /\ \A k \in 1..Len(numFactors) :
               numFactors[k] * numFactors[Len(numFactors) + 1 - k] = inputNum

\* C5 witness: a perfect square with several divisors was factorized.
C5_Witness ==
    /\ pc = "done"
    /\ inputNum = 144
    /\ Len(numFactors) = 15
    /\ numFactors[8] = 12

(***************************************************************************)
(* Properties of the date-span builder.                                    *)
(***************************************************************************)
\* The pixel position of the i-th date.
PixelOf(i) == getXLineScale(uniqueDates, width, uniqueDates[i])

PixelsIncrease ==
    \A i, j \in 1..Len(uniqueDates) : i < j => PixelOf(i) < PixelOf(j)

RECURSIVE SumOfWidths(_)
SumOfWidths(spans) ==
    IF spans = <<>> THEN 0 ELSE Head(spans).width + SumOfWidths(Tail(spans))

\* C3: for every list of two or more unique dates with strictly increasing
\* pixel positions (not necessarily evenly spaced), the spans returned by
\* getDateSpaces are contiguous: each span starts where the previous one
\* ends, so neighbours neither overlap nor leave a gap.
C3_SpansContiguous ==
    (pc = "done" /\ Len(uniqueDates) >= 2 /\ PixelsIncrease) =>
        \A i \in 2..Len(dateSpaces) :
            dateSpaces[i].start = dateSpaces[i - 1].start + dateSpaces[i - 1].width

\* C4: when the scale maps the first date to 0 and the last date to the
\* chart width, the spans of two or more dates cover exactly the chart
\* width (first start 0, last end = width, widths sum to width); the span
\* of a single date is {start: 0, width: chart width}.
C4_SpansCoverWidth ==
    pc = "done" =>
        /\ (/\ Len(uniqueDates) >= 2
            /\ PixelOf(1) = 0
            /\ PixelOf(Len(uniqueDates)) = width) =>
               /\ dateSpaces[1].start = 0
               /\ dateSpaces[Len(dateSpaces)].start
                      + dateSpaces[Len(dateSpaces)].width = 2 * width
               /\ SumOfWidths(dateSpaces) = 2 * width
        /\ Len(uniqueDates) = 1 =>
               dateSpaces =
                   <<[date |-> uniqueDates[1], start |-> 0, width |-> 2 * width]>>

(***************************************************************************)
(* Properties of the y-max rounder.                                        *)
(***************************************************************************)
\* The maximum series value.
RawMax == d3MaxOfSeries(lineData)

\* C6: for every positive maximum series value raw, getYMax returns the
\* smallest integer multiple of step = 3 * 10^(floor(log10(s)) - 1) that is
\* at least s = 4/3 * raw; hence the result is >= raw, a multiple of step,
\* and less than step above s.
C6_YMaxNiceMultiple ==
    (pc = "done" /\ RawMax > 0) =>
        LET num == 4 * RawMax
            step == 3 * Pow10(FloorLog10(num \div 3) - 1)
        IN /\ yMax % step = 0
           /\ 3 * yMax >= num
           /\ 3 * (yMax - step) < num
           /\ yMax >= RawMax

\* C7: when the maximum series value is 0 or negative, getYMax returns a
\* result that is a number (not NaN) and strictly positive.
C7_YMaxPositive ==
    (pc = "done" /\ RawMax <= 0) => yMax > 0

(***************************************************************************)
(* Properties of the tooltip positioner.                                   *)
(***************************************************************************)
ElementInsideChart ==
    /\ elementCoords.left >= chartCoords.left
    /\ elementCoords.top >= chartCoords.top
    /\ elementCoords.left + elementCoords.width
           <= chartCoords.left + chartCoords.width
    /\ elementCoords.top + elementCoords.height
           <= chartCoords.top + chartCoords.height

TooltipFits ==
    /\ tooltipSize.width + (2 * 24) <= chartCoords.width
    /\ tooltipSize.height + (2 * 24) <= chartCoords.height

\* C8: in both position modes and for every elementWidthRatio in [0,1],
\* when the hovered element lies inside the chart and the tooltip plus a
\* margin of 24 on both sides fits into the chart in both directions,
\* calculateTooltipPosition returns x in [0, chartWidth] and y in
\* [0, chartHeight].
C8_TooltipInsideChart ==
    (pc = "done" /\ ElementInsideChart /\ TooltipFits) =>
        /\ 0 <= position.x /\ position.x <= chartCoords.width
        /\ 0 <= position.y /\ position.y <= chartCoords.height

\* C8 witness: an element in the lower right corner of the chart, whose
\* tooltip was flipped to the left of and above the element.
C8_Witness ==
    /\ pc = "done"
    /\ ElementInsideChart
    /\ TooltipFits
    /\ tooltipPosition = "over"
    /\ position.x < elementCoords.left - chartCoords.left
    /\ position.y < elementCoords.top - chartCoords.top

\* The direct anchor of the tooltip on each axis, 24 beyond the anchor point.
DirectX ==
    elementCoords.left + ((elementCoords.width * elementWidthRatio) \div RatioDen)
        + 24 - chartCoords.left

DirectY == elementCoords.top + 24 - chartCoords.top

\* C12: in 'over' mode x is the direct anchor elementLeft +
\* elementWidth * ratio + 24 - chartLeft when that plus tooltipWidth + 24 is
\* at most chartWidth, and max(24, elementLeft + elementWidth * (1 - ratio)
\* - tooltipWidth - 24 - chartLeft) otherwise; y is elementTop + 24 -
\* chartTop when that plus tooltipHeight + 24 is at most chartHeight, and
\* max(0, elementTop - tooltipHeight - 24 - chartTop) otherwise.
C12_OverModePlacement ==
    (pc = "done" /\ tooltipPosition = "over") =>
        /\ position.x =
               IF DirectX + tooltipSize.width + 24 <= chartCoords.width
               THEN DirectX
               ELSE MaxOf(24,
                          elementCoords.left
                              + ((elementCoords.width * (RatioDen - elementWidthRatio))
                                     \div RatioDen)
                              - tooltipSize.width - 24 - chartCoords.left)
        /\ position.y =
               IF DirectY + tooltipSize.height + 24 <= chartCoords.height
               THEN DirectY
               ELSE MaxOf(0, elementCoords.top - tooltipSize.height - 24
                                 - chartCoords.top)

\* C12 witness: ratio 1 and an element far from the right edge of the
\* chart; x is the direct anchor at the right end of the element.
C12_Witness ==
    /\ pc = "done"
    /\ tooltipPosition = "over"
    /\ elementWidthRatio = RatioDen
    /\ elementCoords.width > 0
    /\ ElementInsideChart
    /\ position.x = elementCoords.left + elementCoords.width + 24 - chartCoords.left
    /\ position.x + tooltipSize.width + 24 < chartCoords.width

\* The result is the same whatever ratio the caller passes.
RatioIgnored ==
    \A r \in 0..RatioDen :
        position = calculateTooltipPosition(
                       elementCoords, chartCoords, tooltipSize, tooltipPosition, r)

\* C13 as stated: in 'below' mode, for all inputs, y = chartHeight, x lies in
\* [24, chartWidth - tooltipWidth - 24], and the result does not depend on
\* the elementWidthRatio argument.
C13_BelowModeAllInputs ==
    (pc = "done" /\ tooltipPosition = "below") =>
        /\ position.y = chartCoords.height
        /\ 24 <= position.x
        /\ position.x <= chartCoords.width - tooltipSize.width - 24
        /\ RatioIgnored

\* C13 amended: in 'below' mode, for all inputs, y = chartHeight, x >= 24
\* and the result does not depend on the elementWidthRatio argument; x is at
\* most chartWidth - tooltipWidth - 24 when the tooltip and a margin of 24 on
\* both sides fit into the chart's width, and is exactly 24 when they do not.
C13_BelowModeAmended ==
    (pc = "done" /\ tooltipPosition = "below") =>
        /\ position.y = chartCoords.height
        /\ 24 <= position.x
        /\ RatioIgnored
        /\ IF tooltipSize.width + (2 * 24) <= chartCoords.width
           THEN position.x <= chartCoords.width - tooltipSize.width - 24
           ELSE position.x = 24

\* C13 witness: a call in 'below' mode with ratio 1 on a wide element; the
\* tooltip is centred under the left end of the element, strictly inside the
\* clamping interval.
C13_Witness ==
    /\ pc = "done"
    /\ tooltipPosition = "below"
    /\ elementWidthRatio = RatioDen
    /\ elementCoords.width > 0
    /\ 24 < position.x
    /\ position.x < chartCoords.width - tooltipSize.width - 24
    /\ position.x = elementCoords.left + 24 - chartCoords.left
                         - (tooltipSize.width \div 2)

(***************************************************************************)
(* Properties of the colour assignment.                                    *)
(***************************************************************************)
NumKeys == Len(paramsOrderedKeys)

\* The zero-based position of the key in the list, for a key of the list.
KeyIndex == (CHOOSE i \in 1..NumKeys : paramsOrderedKeys[i].key = colorKey) - 1

KeyInList == \E i \in 1..NumKeys : paramsOrderedKeys[i].key = colorKey

\* The fraction v is the number num / den.
IsFraction(v, num, den) == v # <<>> /\ v[1] * den = num * v[2]

\* C16 as stated: for every ordered key list of length n >= 2 and every key
\* at index idx in it, getColor passes idx / (n - 1) to the colour scheme.
C16_IndexOverLength ==
    (pc = "done" /\ NumKeys >= 2 /\ KeyInList) =>
        IsFraction(keyValue, KeyIndex, NumKeys - 1)

\* C16 amended: for every ordered key list of length n >= 5 and every key at
\* index idx in it, getColor passes idx / (n - 1) to the colour scheme (the
\* first key 0, the last key 1); for a list of 1 to 4 keys it passes the
\* entry idx of the fixed scale of that length, a number strictly between 0
\* and 1, also for the first and the last key.
C16_IndexOverLengthFromFive ==
    (pc = "done" /\ KeyInList) =>
        /\ NumKeys >= 5 => IsFraction(keyValue, KeyIndex, NumKeys - 1)
        /\ NumKeys < 5 =>
               /\ keyValue = <<smallColorScales[NumKeys + 1][KeyIndex + 1], ScaleDen>>
               /\ 0 < keyValue[1] /\ keyValue[1] < keyValue[2]

\* C16 witness: the last of five or more keys, mapped to 1.
C16_Witness ==
    /\ pc = "done"
    /\ NumKeys >= 5
    /\ KeyInList
    /\ KeyIndex = NumKeys - 1
    /\ keyValue[1] = keyValue[2]

(***************************************************************************)
(* Properties of the chart component.                                      *)
(***************************************************************************)
StateInSync ==
    /\ state.width = props.width
    /\ state.type = props.type
    /\ isEqual(state.allData, getAllData(props))

\* C18: for every sequence of prop changes the chain of componentDidUpdate
\* calls that a change triggers calls setState finitely often (fewer than
\* MaxChain updates in a row do) and stops, and once it has stopped
\* state.width = props.width, state.type = props.type and state.allData
\* deep-equals getAllData(props).
C18_UpdateChainSettlesInSync ==
    /\ setStateChain < MaxChain
    /\ pc = "idle" => StateInSync

\* C19: whether or not the orderedKeys prop is given, getParams completes
\* without an error and the domain of the returned xGroupScale is the list
\* of the visible keys of the returned params.orderedKeys.
C19_GetParamsOneKeyList ==
    chartParams # <<>> =>
        /\ chartParams[1].error = ""
        /\ chartParams[1].xGroupScale =
               getXGroupScale(<<chartParams[1].orderedKeys>>).domain

====
